---- MODULE Spec2Model ----
(***************************************************************************)
(* Order pipeline of the storefront backend: /chat/order-verify            *)
(* (verify_order), /orders/create (create_order), /orders/<id>/confirm     *)
(* (confirm_order) and /orders/<id>/cancel (cancel_order), over the        *)
(* products, orders and order_items tables.                                *)
(*                                                                         *)
(* Every request runs in its own SQLAlchemy session.  A session loads a    *)
(* row once (identity map), works on its private copy and sends absolute   *)
(* column values at commit; nothing in the handlers locks a row.  One step *)
(* of the model is one database round trip of one request.                 *)
(***************************************************************************)
EXTENDS Integers, Sequences, FiniteSets, TLC

\* ------------------------------------------------------------- bounds
\* MaxItems caps the rows of the order_items table, and with it the lines
\* of one request and the rows of the orders table.
MaxQty == 2
MaxItems == 2
MaxLines == MaxItems
MaxOrders == MaxItems
\* MaxChatTurns caps the chat_history rows, and their ids, where messages of
\* every kind are sent; MaxLog caps them where one user fills the log past
\* the read limit, the other user adding at most MaxOthers rows.
MaxChatTurns == 2
\* Prices and totals are binary floating-point numbers (Float columns,
\* Python floats), here with MantissaBits significant bits; MaxQuoteLines
\* caps the lines of a quote where totals are pushed past that precision.
MantissaBits == 5
MaxQuoteLines == 4
MaxLog == 52
MaxOthers == 1

\* ------------------------------------------------------------ fixtures
Products == {1, 2}
Users == {1, 2}
Buyers == {1}
Reqs == {1, 2}
Price == [p \in Products |-> IF p = 1 THEN 10 ELSE 3]
InitStock == [p \in Products |-> IF p = 1 THEN 2 ELSE 1]

Quantities == 0..MaxQty
\* A line of the request body: a product id and the quantity given for it,
\* <<q>>, or <<>> when the body gives none.
QtyInputs == {<<>>} \cup {<<q>> : q \in Quantities}
\* Every catalog product with every quantity, one line without a quantity
\* and one line naming a product the catalog does not hold.
LineInputs ==
    [product_id : Products, given : QtyInputs \ {<<>>}]
    \cup {[product_id |-> 1, given |-> <<>>], [product_id |-> 3, given |-> <<1>>]}

\* stock, orders, items: the products.stock column and the orders and
\* order_items tables, as committed.  req: the request each worker runs.
\* response: the reply sent by the step just taken.  quote: the summary a
\* client holds from its last successful quote (tracked by SpecQuote only).
\* fault: where the last persistence failure struck (tracked by SpecFail only).
VARIABLES stock, orders, items, req, response, quote, fault

\* The chat assistant.  chat_history: the ChatHistory rows in the order of
\* their created_at.  user_memories, initialized: the fields of rag_service.
\* reply: the body returned by the chat request just served.
VARIABLES chat_history, user_memories, initialized, reply
shop == <<stock, orders, items, req, response, quote, fault>>
assistant == <<chat_history, user_memories, initialized, reply>>
vars == <<stock, orders, items, req, response, quote, fault,
          chat_history, user_memories, initialized, reply>>

\* ------------------------------------------------------------- helpers
NoSession == [p \in {} |-> 0]

\* A worker between two requests.
Idle ==
    [op |-> "idle", pc |-> "idle", user |-> 0, confirm |-> FALSE, n |-> 0,
     lines |-> <<>>, i |-> 0, oid |-> 0, total |-> 0, session |-> NoSession]

\* Product.query.get / item.product: the session's copy of the row, read
\* from the table only when the session does not hold it yet.
Load(session, p) ==
    IF p \in DOMAIN session THEN session ELSE session @@ (p :> stock[p])

\* Mutant: the check reads the stock the catalog started with, not the
\* session's copy of the live row.
Available_AtStart(session, p) == InitStock[p]

\* product.stock, on the session's copy of the row
Available(session, p) == session[p]

\* quantities[i] if i < len(quantities) else 1; item.get('quantity', 1)
Qty(given) == IF given = <<>> THEN 1 ELSE given[1]

\* The number of low bits x loses when stored as a float.
Exponent(x) ==
    CHOOSE e \in 0..20 :
        /\ x < 2^(MantissaBits + e)
        /\ e = 0 \/ x >= 2^(MantissaBits + e - 1)

\* The float nearest to x, ties to the even mantissa.
Round(x) ==
    LET unit == 2^Exponent(x)
        m == x \div unit
        rest == x % unit
    IN IF 2 * rest > unit \/ (2 * rest = unit /\ m % 2 = 1)
       THEN (m + 1) * unit
       ELSE m * unit

\* float + float, float * int
FAdd(a, b) == Round(a + b)
FMul(a, b) == Round(a * b)

\* Mutant: the subtotal forgets the quantity.
Subtotal_PriceOnly(p, q) == Price[p]

\* subtotal = product.price * qty
Subtotal(p, q) == FMul(Price[p], q)

\* The quantity a list of lines (or of order items) holds of product p.
RECURSIVE Ordered(_, _)
Ordered(lines, p) ==
    IF lines = <<>> THEN 0
    ELSE (IF Head(lines).product_id = p THEN Head(lines).quantity ELSE 0)
         + Ordered(Tail(lines), p)

OrderItems(oid) == SelectSeq(items, LAMBDA it : it.order_id = oid)

\* Rows of order_items the running placements may still add.
Placing ==
    LET of(r) == IF req[r].op \in {"verify", "create"} /\ req[r].confirm THEN req[r].n ELSE 0
    IN of(1) + of(2)

Room(n) == Len(items) + Placing + n <= MaxItems

\* response is the reply sent by the step just taken ("none": no reply).
\* The handler returns: the worker is free.
Finish(r, res) == req' = [req EXCEPT ![r] = Idle] /\ response' = res

\* The handler goes on to its next database round trip.
GoOn(r, rec) == req' = [req EXCEPT ![r] = rec] /\ response' = "none"

\* The unit of work at commit: an UPDATE is sent only for a row whose
\* value differs from the loaded one, and it carries the session's value.
Flushed(session, p, change) ==
    IF p \in DOMAIN session /\ change # 0 THEN session[p] + change ELSE stock[p]

NoMemories == [u \in {} |-> <<>>]
NoReply == [success |-> TRUE]
NoFault == [pc |-> "none", applied |-> 0]
NoQuote == [lines |-> <<>>, state |-> "none", total |-> 0, summary |-> <<>>]

\* ---------------------------------------------------------------- Init
Init ==
    /\ stock = InitStock
    /\ orders = <<>>
    /\ items = <<>>
    /\ req = [r \in Reqs |-> Idle]
    /\ response = "none"
    /\ quote = NoQuote
    /\ fault = NoFault
    /\ chat_history = <<>>
    /\ user_memories = NoMemories
    /\ initialized = FALSE
    /\ reply = NoReply

\* ------------------------------------------------------- verify_order
\* The request is accepted: its body holds n lines (the content of a line
\* is drawn when the loop reaches it) and the confirm flag.
VerifyOrderStart(r, u, n, confirm) ==
    /\ req[r].pc = "idle"
    /\ confirm => Room(n)
    /\ IF n = 0
       THEN Finish(r, "EmptyOrder")
       ELSE GoOn(r, [Idle EXCEPT !.op = "verify", !.pc = "validate", !.user = u,
                                 !.confirm = confirm, !.n = n, !.i = 1])
    /\ UNCHANGED <<stock, orders, items>>

\* Mutant: the confirm flag is not looked at, every quote goes on to commit.
QuoteOnly_Ignored(q) == FALSE

\* if not confirm: return the order summary
QuoteOnly(q) == q.i = q.n /\ ~q.confirm

\* One iteration of the validation loop, on line ln.
VerifyOrderLine(r, ln) ==
    LET q == req[r]
        pid == ln.product_id
        qty == Qty(ln.given)
    IN /\ q.op = "verify" /\ q.pc = "validate"
       /\ IF pid \notin Products
          THEN Finish(r, "ProductNotFound")
          ELSE LET s == Load(q.session, pid)
               IN IF qty > Available(s, pid)
                  THEN Finish(r, "InsufficientStock")
                  ELSE IF QuoteOnly(q)
                  THEN Finish(r, "pending_confirmation")
                  ELSE GoOn(r, [q EXCEPT !.session = s, !.i = q.i + 1,
                                  !.lines = Append(q.lines, [product_id |-> pid, quantity |-> qty]),
                                  !.total = FAdd(q.total, Subtotal(pid, qty)),
                                  !.pc = IF q.i < q.n THEN "validate" ELSE "commit"])
       /\ UNCHANGED <<stock, orders, items>>

\* ------------------------------------------------------- create_order
CreateOrderStart(r, u, n) ==
    /\ req[r].pc = "idle"
    /\ Room(n)
    /\ IF n = 0
       THEN Finish(r, "EmptyOrder")
       ELSE GoOn(r, [Idle EXCEPT !.op = "create", !.pc = "validate", !.user = u,
                                 !.confirm = TRUE, !.n = n, !.i = 1])
    /\ UNCHANGED <<stock, orders, items>>

CreateOrderLine(r, ln) ==
    LET q == req[r]
        pid == ln.product_id
        qty == Qty(ln.given)
    IN /\ q.op = "create" /\ q.pc = "validate"
       /\ IF pid \notin Products
          THEN Finish(r, "ProductNotFound")
          ELSE LET s == Load(q.session, pid)
               IN IF qty < 1
                  THEN Finish(r, "InvalidQuantity")
                  ELSE IF qty > Available(s, pid)
                  THEN Finish(r, "InsufficientStock")
                  ELSE GoOn(r, [q EXCEPT !.session = s, !.i = q.i + 1,
                                  !.lines = Append(q.lines, [product_id |-> pid, quantity |-> qty]),
                                  !.total = FAdd(q.total, Subtotal(pid, qty)),
                                  !.pc = IF q.i < q.n THEN "validate" ELSE "commit"])
       /\ UNCHANGED <<stock, orders, items>>

\* --------------------------------- the commit of both placement paths
NewOrder(u, total) == [user |-> u, status |-> "pending", total |-> total]

NewItems(oid, lines) ==
    [k \in 1..Len(lines) |->
        [order_id |-> oid, product_id |-> lines[k].product_id,
         quantity |-> lines[k].quantity, price |-> Price[lines[k].product_id]]]

\* Mutant: one unit is taken per line, whatever its quantity.
Decrement_OnePerLine(lines, p) == 0 - Len(SelectSeq(lines, LAMBDA ln : ln.product_id = p))

\* item['product'].stock -= item['quantity'] on the session's copies
Decrement(lines, p) == 0 - Ordered(lines, p)

\* The order row (flushed first), its items and the stock updates belong to
\* one transaction: the other sessions see them together, at commit.
Persist(r) ==
    LET q == req[r]
        oid == Len(orders) + 1
    IN /\ orders' = Append(orders, NewOrder(q.user, q.total))
       /\ items' = items \o NewItems(oid, q.lines)
       /\ stock' = [p \in Products |-> Flushed(q.session, p, Decrement(q.lines, p))]
       /\ Finish(r, "order_created")

PlaceOrderCommit(r) ==
    /\ req[r].op \in {"verify", "create"} /\ req[r].pc = "commit"
    /\ Persist(r)

\* The same transaction step by step, for the failures that may strike
\* inside it.  db.session.flush(): the order row is written inside the
\* open transaction and gets its id.
PlaceOrderFlush(r) ==
    LET q == req[r]
    IN /\ q.op \in {"verify", "create"} /\ q.pc = "commit"
       /\ GoOn(r, [q EXCEPT !.pc = "items", !.oid = Len(orders) + 1, !.i = 0])
       /\ UNCHANGED <<stock, orders, items>>

\* db.session.add(order_item); product.stock -= quantity, for the next line
PlaceOrderItem(r) ==
    LET q == req[r]
    IN /\ q.pc = "items" /\ q.i < q.n
       /\ GoOn(r, [q EXCEPT !.i = q.i + 1])
       /\ UNCHANGED <<stock, orders, items>>

\* db.session.commit() after the last line
PlaceOrderCommitAll(r) ==
    /\ req[r].pc = "items" /\ req[r].i = req[r].n
    /\ Persist(r)

\* Mutant: what was flushed or applied before the failure stays in the
\* database (every statement committed on its own).
Rollback_Partial(q) ==
    IF q.pc = "items"
    THEN /\ orders' = Append(orders, NewOrder(q.user, q.total))
         /\ items' = items \o NewItems(q.oid, SubSeq(q.lines, 1, q.i))
         /\ stock' = [p \in Products |->
                         Flushed(q.session, p, Decrement(SubSeq(q.lines, 1, q.i), p))]
    ELSE UNCHANGED <<stock, orders, items>>

\* The handlers catch nothing: the exception ends the request and the
\* session is removed with its transaction open, which rolls it back.
Rollback(q) == UNCHANGED <<stock, orders, items>>

\* The flush raises, or the request dies after the flush with any number of
\* lines applied, or the commit raises.
PersistenceFailure(r) ==
    LET q == req[r]
    IN /\ q.op \in {"verify", "create"}
       /\ q.pc \in {"commit", "items"}
       /\ Rollback(q)
       /\ fault' = [pc |-> q.pc, applied |-> q.i]
       /\ Finish(r, "ServerError")

\* ------------------------------------------------------ confirm_order
\* Mutant: the ownership check is missing.
NotOwner_Never(order, u) == FALSE

\* order.user_id != current_user.id
NotOwner(order, u) == order.user # u

ConfirmOrderLoad(r, u, oid) ==
    /\ req[r].pc = "idle"
    /\ IF oid \notin 1..Len(orders)
       THEN Finish(r, "NotFound")
       ELSE IF NotOwner(orders[oid], u)
       THEN Finish(r, "Unauthorized")
       ELSE IF orders[oid].status # "pending"
       THEN Finish(r, "NotConfirmable")
       ELSE GoOn(r, [Idle EXCEPT !.op = "confirm", !.pc = "commit",
                        !.user = u, !.oid = oid])
    /\ UNCHANGED <<stock, orders, items>>

ConfirmOrderCommit(r) ==
    /\ req[r].op = "confirm" /\ req[r].pc = "commit"
    /\ orders' = [orders EXCEPT ![req[r].oid].status = "confirmed"]
    /\ Finish(r, "confirmed")
    /\ UNCHANGED <<stock, items>>

\* ------------------------------------------------------- cancel_order
\* Mutant: a cancelled order passes the status check again.
Cancellable_AlsoCancelled(status) == status \in {"pending", "confirmed", "cancelled"}

\* order.status in ['pending', 'confirmed']
Cancellable(status) == status \in {"pending", "confirmed"}

CancelOrderLoad(r, u, oid) ==
    /\ req[r].pc = "idle"
    /\ IF oid \notin 1..Len(orders)
       THEN Finish(r, "NotFound")
       ELSE IF NotOwner(orders[oid], u)
       THEN Finish(r, "Unauthorized")
       ELSE IF ~Cancellable(orders[oid].status)
       THEN Finish(r, "NotCancellable")
       ELSE GoOn(r, [Idle EXCEPT !.op = "cancel", !.pc = "restore",
                        !.user = u, !.oid = oid, !.i = 1])
    /\ UNCHANGED <<stock, orders, items>>

\* for item in order.items: item.product.stock += item.quantity
CancelOrderItem(r) ==
    LET q == req[r]
        its == OrderItems(q.oid)
    IN /\ q.op = "cancel" /\ q.pc = "restore"
       /\ GoOn(r, [q EXCEPT !.session = Load(q.session, its[q.i].product_id),
                            !.i = q.i + 1,
                            !.pc = IF q.i < Len(its) THEN "restore" ELSE "commit"])
       /\ UNCHANGED <<stock, orders, items>>

\* Mutant: one unit is restored per item, whatever its quantity.
Restore_OnePerItem(its, p) == Len(SelectSeq(its, LAMBDA it : it.product_id = p))

\* The sum of item.quantity over the order's items of product p.
Restore(its, p) == Ordered(its, p)

CancelOrderCommit(r) ==
    LET q == req[r]
        its == OrderItems(q.oid)
    IN /\ q.op = "cancel" /\ q.pc = "commit"
       /\ stock' = [p \in Products |-> Flushed(q.session, p, Restore(its, p))]
       /\ orders' = [orders EXCEPT ![q.oid].status = "cancelled"]
       /\ Finish(r, "cancelled")
       /\ UNCHANGED items

\* ---------------------------------------------------------- fulfilment
\* The order lifecycle past confirmed (shipped, delivered) is driven from
\* outside the request handlers.
Fulfil(oid) ==
    /\ oid \in 1..Len(orders)
    /\ orders[oid].status \in {"confirmed", "shipped"}
    /\ orders' = [orders EXCEPT ![oid].status =
                     IF orders[oid].status = "confirmed" THEN "shipped" ELSE "delivered"]
    /\ response' = "none"
    /\ UNCHANGED <<stock, items, req>>

\* ---------------------------------------------------------------- Next
\* Worker r may take a step: always when requests interleave, only while
\* no other worker runs when they come one at a time.
Alone(r) == \A o \in Reqs \ {r} : req[o].pc = "idle"
AllIdle == \A r \in Reqs : req[r].pc = "idle"
Sched(r, seq) == (seq => Alone(r)) /\ UNCHANGED <<quote, fault, assistant>>

Step(r, seq) ==
    \/ \E u \in Buyers, n \in 0..MaxLines, confirm \in BOOLEAN :
          Sched(r, seq) /\ VerifyOrderStart(r, u, n, confirm)
    \/ \E ln \in LineInputs : Sched(r, seq) /\ VerifyOrderLine(r, ln)
    \/ \E u \in Buyers, n \in 0..MaxLines : Sched(r, seq) /\ CreateOrderStart(r, u, n)
    \/ \E ln \in LineInputs : Sched(r, seq) /\ CreateOrderLine(r, ln)
    \/ Sched(r, seq) /\ PlaceOrderCommit(r)
    \/ \E u \in Users, oid \in 1..MaxOrders : Sched(r, seq) /\ ConfirmOrderLoad(r, u, oid)
    \/ Sched(r, seq) /\ ConfirmOrderCommit(r)
    \/ \E u \in Users, oid \in 1..MaxOrders : Sched(r, seq) /\ CancelOrderLoad(r, u, oid)
    \/ Sched(r, seq) /\ CancelOrderItem(r)
    \/ Sched(r, seq) /\ CancelOrderCommit(r)

\* Requests of concurrent workers, interleaved at their database round trips.
Next ==
    \/ \E r \in Reqs : Step(r, FALSE)
    \/ \E oid \in 1..MaxOrders : Fulfil(oid) /\ UNCHANGED <<quote, fault, assistant>>

Spec == Init /\ [][Next]_vars

\* One request at a time.
SeqNext ==
    \/ \E r \in Reqs : Step(r, TRUE)
    \/ \E oid \in 1..MaxOrders : AllIdle /\ Fulfil(oid) /\ UNCHANGED <<quote, fault, assistant>>

SpecSeq == Init /\ [][SeqNext]_vars

\* The request handlers alone, interleaved: no status is written from outside.
HandlersNext == \E r \in Reqs : Step(r, FALSE)

SpecHandlers == Init /\ [][HandlersNext]_vars

\* Placements one at a time, their transaction taken step by step, with the
\* persistence failures that may end them.
FailNext ==
    \/ \E r \in Reqs, u \in Buyers, n \in 0..MaxLines, confirm \in BOOLEAN :
          Sched(r, TRUE) /\ VerifyOrderStart(r, u, n, confirm)
    \/ \E r \in Reqs, ln \in LineInputs : Sched(r, TRUE) /\ VerifyOrderLine(r, ln)
    \/ \E r \in Reqs, u \in Buyers, n \in 0..MaxLines : Sched(r, TRUE) /\ CreateOrderStart(r, u, n)
    \/ \E r \in Reqs, ln \in LineInputs : Sched(r, TRUE) /\ CreateOrderLine(r, ln)
    \/ \E r \in Reqs : Sched(r, TRUE) /\ PlaceOrderFlush(r)
    \/ \E r \in Reqs : Sched(r, TRUE) /\ PlaceOrderItem(r)
    \/ \E r \in Reqs : Sched(r, TRUE) /\ PlaceOrderCommitAll(r)
    \/ \E r \in Reqs : Alone(r) /\ PersistenceFailure(r) /\ UNCHANGED <<quote, assistant>>

SpecFail == Init /\ [][FailNext]_vars

\* The quote protocol, one request at a time: a client keeps the summary of
\* its last successful quote and may send it back with confirm=true.
LineOf(ln) == [product_id |-> ln.product_id, quantity |-> Qty(ln.given)]

\* Worker r, reading line ln, is sending the held quote back line by line.
Echo(r, ln) ==
    /\ quote.state = "held"
    /\ req[r].op = "verify" /\ req[r].confirm
    /\ req[r].n = Len(quote.lines)
    /\ Append(req[r].lines, LineOf(ln)) = SubSeq(quote.lines, 1, req[r].i)

\* order_summary: price, quantity and subtotal of each line
Summary(lines) ==
    [k \in 1..Len(lines) |->
        [price |-> Price[lines[k].product_id], quantity |-> lines[k].quantity,
         subtotal |-> Subtotal(lines[k].product_id, lines[k].quantity)]]

Held(r, ln) ==
    quote' = IF response' = "pending_confirmation"
             THEN [lines |-> Append(req[r].lines, LineOf(ln)), state |-> "held",
                   total |-> FAdd(req[r].total, Subtotal(ln.product_id, Qty(ln.given))),
                   summary |-> Summary(Append(req[r].lines, LineOf(ln)))]
             ELSE IF Echo(r, ln) /\ response' = "InsufficientStock"
             THEN [quote EXCEPT !.state = "rejected"]
             ELSE quote

QuoteNext ==
    \/ \E r \in Reqs, u \in Buyers, n \in 0..MaxLines, confirm \in BOOLEAN :
          Sched(r, TRUE) /\ VerifyOrderStart(r, u, n, confirm)
    \/ \E r \in Reqs, ln \in LineInputs : Alone(r) /\ VerifyOrderLine(r, ln) /\ Held(r, ln) /\ UNCHANGED <<fault, assistant>>
    \/ \E r \in Reqs, u \in Buyers, n \in 0..MaxLines : Sched(r, TRUE) /\ CreateOrderStart(r, u, n)
    \/ \E r \in Reqs, ln \in LineInputs : Sched(r, TRUE) /\ CreateOrderLine(r, ln)
    \/ \E r \in Reqs : Sched(r, TRUE) /\ PlaceOrderCommit(r)

SpecQuote == Init /\ [][QuoteNext]_vars

\* Quotes only, one at a time, of up to MaxQuoteLines lines; the client
\* drops the summary it holds when it asks for a new one.
TotalNext ==
    \/ \E r \in Reqs, u \in Buyers, n \in 0..MaxQuoteLines :
          /\ Alone(r) /\ VerifyOrderStart(r, u, n, FALSE)
          /\ quote' = NoQuote /\ UNCHANGED <<fault, assistant>>
    \/ \E r \in Reqs, ln \in LineInputs :
          Alone(r) /\ VerifyOrderLine(r, ln) /\ Held(r, ln) /\ UNCHANGED <<fault, assistant>>

SpecTotal == Init /\ [][TotalNext]_vars

\* ================================================================
\* The chat assistant.  A message is the sequence of its characters.
order_keywords ==
    << <<"o", "r", "d", "e", "r">>,
       <<"b", "u", "y">>,
       <<"p", "u", "r", "c", "h", "a", "s", "e">>,
       <<"a", "d", "d", " ", "t", "o", " ", "c", "a", "r", "t">>,
       <<"c", "h", "e", "c", "k", "o", "u", "t">>,
       <<"i", " ", "w", "a", "n", "t">>,
       <<"i", " ", "n", "e", "e", "d">>,
       <<"i", "'", "d", " ", "l", "i", "k", "e">>,
       <<"g", "e", "t", " ", "m", "e">>,
       <<"c", "a", "n", " ", "i", " ", "g", "e", "t">> >>

\* The messages sent in the model: upper and lower case, keywords inside
\* other words, scrambled keywords, blanks only, blanks around.
Messages ==
    { <<"B", "u", "y">>,
      <<"h", "i">>,
      <<"t", "h", "i", "s">>,
      <<"I", " ", "N", "E", "E", "D", " ", "h", "e", "l", "p">>,
      <<"r", "e", "o", "r", "d", "e", "r">>,
      <<"C", "a", "t", "e", "g", "o", "r", "y", "?">>,
      <<" ">>,
      <<" ", "o", "k", " ">>,
      <<"r", "o", "b", "u", "d", "y">>,
      <<"C", "a", "n", " ", "I", " ", "G", "e", "t">> }

\* str.lower(), on the characters the messages use
LowerChar(c) ==
    CASE c = "B" -> "b"
      [] c = "C" -> "c"
      [] c = "D" -> "d"
      [] c = "E" -> "e"
      [] c = "G" -> "g"
      [] c = "I" -> "i"
      [] c = "N" -> "n"
      [] OTHER -> c

Lower(s) == [k \in 1..Len(s) |-> LowerChar(s[k])]

\* keyword in message: the keyword occurs as a contiguous run of characters
Contains(s, kw) ==
    \E k \in 0..(Len(s) - Len(kw)) : SubSeq(s, k + 1, k + Len(kw)) = kw

\* str.strip(), for blanks
RECURSIVE Strip(_)
Strip(s) ==
    IF s = <<>> THEN s
    ELSE IF Head(s) = " " THEN Strip(Tail(s))
    ELSE IF s[Len(s)] = " " THEN Strip(SubSeq(s, 1, Len(s) - 1))
    ELSE s

\* _detect_order_intent
DetectOrderIntent(message) ==
    \E k \in 1..Len(order_keywords) : Contains(Lower(message), order_keywords[k])

\* The five fixed texts of _fallback_response, by their opening words.
FallbackHello == "Hello! Welcome to our store."
FallbackCategories == "We have 5 categories: Toys, Electronics, Dresses, Cosmetics, and Footwear."
FallbackOrder == "To place an order, please browse our products, select the items you want, and proceed to checkout."
FallbackHelp == "I can help you with: ..."
FallbackDefault == "I'm here to help!"
FallbackSet == {FallbackHello, FallbackCategories, FallbackOrder, FallbackHelp, FallbackDefault}

\* _fallback_response: the text chosen
FallbackText(message) ==
    LET m == Lower(message)
    IN IF Contains(m, <<"h", "e", "l", "l", "o">>) \/ Contains(m, <<"h", "i">>) THEN FallbackHello
       ELSE IF Contains(m, <<"c", "a", "t", "e", "g", "o", "r", "y">>) \/ Contains(m, <<"c", "a", "t", "e", "g", "o", "r", "i", "e", "s">>) THEN FallbackCategories
       ELSE IF Contains(m, <<"o", "r", "d", "e", "r">>) THEN FallbackOrder
       ELSE IF Contains(m, <<"h", "e", "l", "p">>) THEN FallbackHelp
       ELSE FallbackDefault

\* _fallback_response: the dictionary returned
FallbackResponse(message) ==
    [success |-> TRUE, response |-> FallbackText(message), sources |-> <<>>,
     fallback |-> TRUE]

\* What the language model may answer: some text, or nothing under 'answer'
\* (result.get('answer', ...) then gives the apology).
Answers == {"Here is what I found.", "I apologize, I could not process your request."}
Retrieved == {<<>>, <<1>>}

\* chat, the generative path: the response built from the chain's result
Generative(message, answer, sources) ==
    LET base == [success |-> TRUE, response |-> answer, sources |-> sources]
    IN IF DetectOrderIntent(message)
       THEN base @@ [action |-> "order_intent", requires_confirmation |-> TRUE]
       ELSE base

\* get_memory: the user's memory, created empty when there is none
GetMemory(memories, u) ==
    IF u \in DOMAIN memories THEN memories ELSE memories @@ (u :> <<>>)

\* Mutant: an exception of the generative path reaches the caller.
Degrade_Raises(message) == [success |-> FALSE, error |-> "Internal Server Error"]

\* chat: except Exception -> _fallback_response
Degrade(message) == FallbackResponse(message)

\* The request just served was a chat message of user u saying raw: it
\* added the newest row.
Said(u, raw) ==
    /\ Len(chat_history') = Len(chat_history) + 1
    /\ chat_history'[Len(chat_history')].user_id = u
    /\ chat_history'[Len(chat_history')].message = Strip(raw)

\* The next id of the chat_history table.
RECURSIVE MaxId(_)
MaxId(rows) ==
    IF rows = <<>> THEN 0
    ELSE LET m == MaxId(Tail(rows)) IN IF Head(rows).id > m THEN Head(rows).id ELSE m

\* POST /chat/message.  outcome: whether the chain answers or raises.
ChatMessage(u, raw, outcome, answer, sources) ==
    LET message == Strip(raw)
    IN IF message = <<>>
       THEN /\ reply' = [success |-> FALSE, message |-> "Message cannot be empty"]
            /\ UNCHANGED <<chat_history, user_memories, initialized>>
       ELSE LET answered == initialized /\ outcome = "answer"
                body == IF ~initialized THEN FallbackResponse(message)
                        ELSE IF outcome = "answer" THEN Generative(message, answer, sources)
                        ELSE Degrade(message)
                mem == IF initialized THEN GetMemory(user_memories, u) ELSE user_memories
            IN /\ reply' = body
               /\ user_memories' =
                     IF answered
                     THEN [mem EXCEPT ![u] = Append(@, [question |-> message, answer |-> answer])]
                     ELSE mem
               /\ chat_history' = Append(chat_history,
                     [id |-> MaxId(chat_history) + 1, user_id |-> u, message |-> message,
                      response |-> IF "response" \in DOMAIN body THEN body.response ELSE ""])
               /\ UNCHANGED initialized

\* POST /chat/init.  ok: the libraries, the key and the index are all there.
InitializeRag(ok) ==
    /\ initialized' = (initialized \/ ok)
    /\ reply' = [success |-> ok]
    /\ UNCHANGED <<chat_history, user_memories>>

HistoryLimit == 50

RECURSIVE Reverse(_)
Reverse(seq) == IF seq = <<>> THEN <<>> ELSE Append(Reverse(Tail(seq)), Head(seq))

Limit(seq, n) == IF Len(seq) <= n THEN seq ELSE SubSeq(seq, 1, n)

\* ChatHistory.to_dict
ToDict(h) == [id |-> h.id, message |-> h.message, response |-> h.response]

\* Mutant: the rows are taken oldest first before the limit.
Recent_Oldest(u) ==
    Reverse(Limit(SelectSeq(chat_history, LAMBDA h : h.user_id = u), HistoryLimit))

\* filter_by(user_id).order_by(created_at.desc()).limit(50).all()
Recent(u) ==
    Limit(Reverse(SelectSeq(chat_history, LAMBDA h : h.user_id = u)), HistoryLimit)

\* GET /chat/history
ChatHistoryRead(u) ==
    /\ reply' = [success |-> TRUE,
                 history |-> [k \in 1..Len(Recent(u)) |-> ToDict(Reverse(Recent(u))[k])]]
    /\ UNCHANGED <<chat_history, user_memories, initialized>>

\* Mutant: the memory of the user is left in place.
ClearMemory_Keeps(memories, u) == memories

\* clear_memory
ClearMemory(memories, u) ==
    [v \in DOMAIN memories \ {u} |-> memories[v]]

\* POST /chat/clear-history
ClearChatHistory(u) ==
    /\ chat_history' = SelectSeq(chat_history, LAMBDA h : h.user_id # u)
    /\ user_memories' = ClearMemory(user_memories, u)
    /\ reply' = [success |-> TRUE, message |-> "Chat history cleared"]
    /\ UNCHANGED initialized

\* The chat requests, one at a time, with messages of every kind.
ChatNext ==
    \/ \E ok \in BOOLEAN : InitializeRag(ok) /\ UNCHANGED shop
    \/ \E u \in Users, raw \in Messages, outcome \in {"answer", "raise"},
          answer \in Answers, sources \in Retrieved :
          /\ Len(chat_history) < MaxChatTurns /\ MaxId(chat_history) < MaxChatTurns
          /\ ChatMessage(u, raw, outcome, answer, sources)
          /\ UNCHANGED shop
    \/ \E u \in Users : ChatHistoryRead(u) /\ UNCHANGED shop
    \/ \E u \in Users : ClearChatHistory(u) /\ UNCHANGED shop

SpecChat == Init /\ [][ChatNext]_vars

\* The chat log filled past the read limit by user 1, who may also clear it,
\* the assistant on its fallback.
Rows(u) == Len(SelectSeq(chat_history, LAMBDA h : h.user_id = u))

LogNext ==
    \/ \E u \in Users :
          /\ Len(chat_history) < MaxLog /\ MaxId(chat_history) < MaxLog
          /\ u # 1 => Rows(u) < MaxOthers
          /\ ChatMessage(u, <<"h", "i">>, "raise", "", <<>>)
          /\ UNCHANGED shop
    \/ \E u \in Users : ChatHistoryRead(u) /\ UNCHANGED shop
    \/ ClearChatHistory(1) /\ UNCHANGED shop

SpecLog == Init /\ [][LogNext]_vars

\* ================================================================
\* Claims
\* ================================================================
Durable == <<stock, orders, items>>

Live(oid) == orders[oid].status # "cancelled"

\* The sum of price * quantity over a list of lines or of order items.
\* The sum of price * quantity over lines, added up in their order as
\* floats are.
RECURSIVE SumFrom(_, _)
SumFrom(sum, lines) ==
    IF lines = <<>> THEN sum
    ELSE SumFrom(Round(sum + Round(Price[Head(lines).product_id] * Head(lines).quantity)),
                 Tail(lines))

SumOf(lines) == SumFrom(0, lines)

Orderings(n) == {f \in [1..n -> 1..n] : \A i, j \in 1..n : f[i] = f[j] => i = j}

\* C1: two confirmations that each ask for the last unit of a product never
\* both succeed: of a product that starts with one unit, the orders that are
\* not cancelled and consist of the single line (product, 1) are at most one.
C1_LastUnitSoldOnce ==
    \A p \in Products :
        InitStock[p] = 1 =>
            Cardinality({oid \in 1..Len(orders) :
                            /\ Live(oid)
                            /\ LET its == OrderItems(oid)
                               IN Len(its) = 1 /\ its[1].product_id = p /\ its[1].quantity = 1}) <= 1

\* C2: in every reachable state every product's stock is >= 0.
C2_StockNonNegative == \A p \in Products : stock[p] >= 0

\* C7: no persisted order item has a quantity below 1: every placement path
\* rejects such a line (InvalidQuantity) and creates nothing.
C7_ItemQuantityPositive == \A k \in 1..Len(items) : items[k].quantity >= 1

\* C8: in every reachable state every order's total_amount is the sum of
\* price * quantity over its items.
C8_TotalIsSumOfItems ==
    \A oid \in 1..Len(orders) : orders[oid].total = SumOf(OrderItems(oid))

\* A placement request (order-verify with confirm=true, or create) of worker
\* r takes the step, and Rejected: it ends without "order_created".
Placement(r) == req[r].op \in {"verify", "create"} /\ req[r].confirm /\ req'[r] # req[r]
Rejected(r) == req'[r] = Idle /\ response' # "order_created"

\* A line fails the not-found, quantity or stock check of the placement contract.
FailsCheck(ln, available) ==
    \/ ln.product_id \notin Products
    \/ Qty(ln.given) < 1
    \/ Qty(ln.given) > available[ln.product_id]

\* The whole order is applied: the order row, one item per requested line
\* and the stock decrement of every line.
FullyCommitted(r) ==
    /\ response' = "order_created"
    /\ Len(orders') = Len(orders) + 1
    /\ SubSeq(orders', 1, Len(orders)) = orders
    /\ items' = items \o NewItems(Len(orders) + 1, req[r].lines)
    /\ Len(req[r].lines) = req[r].n
    /\ \A p \in Products : stock'[p] = stock[p] - Ordered(req[r].lines, p)

\* C3: a confirmation is all-or-nothing.  Every step of a placement request
\* either applies the order row, one item per requested line and every stock
\* decrement together, or leaves orders, items and stock as they are; and a
\* request that meets a line failing the not-found, quantity or stock check
\* ends rejected with nothing applied.
C3_AllOrNothing ==
    [][\A r \in Reqs :
          /\ Placement(r) => (FullyCommitted(r) \/ UNCHANGED Durable)
          /\ \A ln \in LineInputs :
                (VerifyOrderLine(r, ln) \/ CreateOrderLine(r, ln))
                /\ req[r].confirm /\ FailsCheck(ln, stock)
                => Rejected(r) /\ UNCHANGED Durable]_vars

\* C4: a quote (order-verify with confirm=false) changes nothing: every step
\* of such a request, whether it goes on, returns the summary or returns an
\* error, leaves orders, order items and every stock as they are.
Quoting(q) == q.op = "verify" /\ ~q.confirm
QuoteStep(r) == req'[r] # req[r] /\ (Quoting(req[r]) \/ Quoting(req'[r]))

C4_QuoteChangesNothing ==
    [][/\ \A r \in Reqs : QuoteStep(r) => UNCHANGED Durable
       /\ response' \in {"pending_confirmation", "EmptyOrder"} => UNCHANGED Durable]_vars

\* A summary has just been returned for a quote made while an order and its
\* stock decrement are in place: they are still there.
C4_Witness ==
    /\ response = "pending_confirmation"
    /\ Len(orders) = 1 /\ Len(items) = 1
    /\ stock[1] < InitStock[1]

\* C5: cancelling an order whose status is pending or confirmed (by its
\* owner) is accepted, sets the status to cancelled and raises each
\* product's stock by exactly the quantity on the order's items of that
\* product; the stock of the other products and the other orders stay.
C5_CancelRestoresStock ==
    [][\A r \in Reqs :
          /\ \A u \in Users, oid \in 1..Len(orders) :
                CancelOrderLoad(r, u, oid) /\ orders[oid].user = u
                /\ orders[oid].status \in {"pending", "confirmed"}
                => req'[r].op = "cancel" /\ req'[r].oid = oid /\ UNCHANGED Durable
          /\ req[r].op = "cancel" /\ req'[r] = Idle
             => LET oid == req[r].oid
                IN /\ response' = "cancelled"
                   /\ orders[oid].status \in {"pending", "confirmed"}
                   /\ orders' = [orders EXCEPT ![oid].status = "cancelled"]
                   /\ items' = items
                   /\ \A p \in Products :
                         stock'[p] = stock[p] + Ordered(OrderItems(oid), p)]_vars

\* An order of two units of product 1 has just been cancelled and the two
\* units are back; product 2 is untouched.
C5_Witness ==
    /\ response = "cancelled"
    /\ \E oid \in 1..Len(orders) :
          orders[oid].status = "cancelled" /\ Ordered(OrderItems(oid), 1) = 2
    /\ stock = InitStock

\* C6: a cancel request (by the owner) on an order whose status is not
\* pending or confirmed fails with NotCancellable and changes neither the
\* order nor any stock; so a second cancel of the same order restores nothing.
C6_NotCancellable ==
    [][/\ \A r \in Reqs, u \in Users, oid \in 1..Len(orders) :
             CancelOrderLoad(r, u, oid) /\ orders[oid].user = u
             /\ orders[oid].status \notin {"pending", "confirmed"}
             => response' = "NotCancellable" /\ req'[r] = Idle /\ UNCHANGED Durable
       /\ response' = "NotCancellable" => UNCHANGED Durable]_vars

\* The only order was cancelled, its units restored once, and a second
\* cancel has just been refused.
C6_Witness ==
    /\ response = "NotCancellable"
    /\ Len(orders) = 1 /\ orders[1].status = "cancelled"
    /\ \E p \in Products : Ordered(OrderItems(1), p) >= 1
    /\ stock = InitStock

\* C9: a quote reserves nothing.  A confirm=true request that sends a held
\* quote back is checked against the stock of that moment: when it reaches
\* a line whose product now has less stock than the quoted quantity it is
\* rejected with InsufficientStock and creates nothing, and it commits only
\* when every quoted quantity is within the stock.
C9_QuoteIsNoReservation ==
    [][\A r \in Reqs :
          /\ \A ln \in LineInputs :
                VerifyOrderLine(r, ln) /\ Echo(r, ln)
                /\ stock[ln.product_id] < Qty(ln.given)
                => response' = "InsufficientStock" /\ req'[r] = Idle /\ UNCHANGED Durable
          /\ req[r].op = "verify" /\ response' = "order_created" /\ req'[r] = Idle
             /\ quote.state = "held" /\ req[r].lines = quote.lines
             => \A k \in 1..Len(quote.lines) :
                   quote.lines[k].quantity <= stock[quote.lines[k].product_id]]_vars

\* A quote succeeded, an order then took the stock, and the confirmation of
\* the quoted items has just been rejected.
C9_Witness ==
    /\ quote.state = "rejected"
    /\ response = "InsufficientStock"
    /\ Len(orders) >= 1
    /\ \E k \in 1..Len(quote.lines) :
          quote.lines[k].quantity > stock[quote.lines[k].product_id]

\* C10: a successful placement creates exactly one new order, owned by the
\* requesting user, pending, whose total is the sum of price * quantity over
\* the requested lines, with one item per line carrying the product's price,
\* and lowers each product's stock by exactly the quantity ordered of it.
C10_PlacementEffect ==
    [][\A r \in Reqs :
          req[r].op \in {"verify", "create"} /\ response' = "order_created" /\ req'[r] = Idle
          => LET lines == req[r].lines
                 oid == Len(orders) + 1
             IN /\ Len(lines) = req[r].n
                /\ orders' = Append(orders, [user |-> req[r].user, status |-> "pending",
                                             total |-> SumOf(lines)])
                /\ items' = items \o [k \in 1..Len(lines) |->
                                        [order_id |-> oid,
                                         product_id |-> lines[k].product_id,
                                         quantity |-> lines[k].quantity,
                                         price |-> Price[lines[k].product_id]]]
                /\ \A p \in Products : stock'[p] = stock[p] - Ordered(lines, p)]_vars

\* Stock 2, quantity 2, price 10: the order just created is pending, owned
\* by the requester, its total is 20 and the stock is 0.
C10_Witness ==
    /\ response = "order_created"
    /\ orders = <<[user |-> 1, status |-> "pending", total |-> 20]>>
    /\ items = <<[order_id |-> 1, product_id |-> 1, quantity |-> 2, price |-> 10]>>
    /\ stock[1] = 0 /\ stock[2] = InitStock[2]

C8_Witness ==
    \E oid \in 1..Len(orders) :
        /\ Len(OrderItems(oid)) = 2
        /\ \E k \in 1..2 : OrderItems(oid)[k].quantity = 2
        /\ orders[oid].total = 23

\* C11: order status follows the lifecycle.  Every order is created pending;
\* a status becomes confirmed only from pending; it becomes cancelled only
\* from pending or confirmed; a cancelled or delivered order never changes
\* status again; a refused confirm or cancel changes nothing.  This under
\* every interleaving of confirm and cancel requests on the same order.
C11_Lifecycle ==
    [][/\ \A oid \in 1..Len(orders') :
             IF oid > Len(orders)
             THEN orders'[oid].status = "pending"
             ELSE LET old == orders[oid].status
                      new == orders'[oid].status
                  IN /\ old \in {"cancelled", "delivered"} => new = old
                     /\ new # old /\ new = "confirmed" => old = "pending"
                     /\ new # old /\ new = "cancelled" => old \in {"pending", "confirmed"}
       /\ response' \in {"NotConfirmable", "NotCancellable"} => UNCHANGED Durable]_vars

\* C12: when persistence fails during the commit of a confirm=true request
\* (at the flush of the order row, after it, or after some or all lines'
\* items and stock decrements were applied), the request ends and the
\* durable state holds no order and no item of it and every product's stock
\* is what it was before the request: no step of a placement that does not
\* answer order_created changes orders, items or stock.
C12_FailureRollsBack ==
    [][\A r \in Reqs :
          req[r].op \in {"verify", "create"} /\ req[r].confirm /\ req'[r] # req[r]
          /\ response' # "order_created"
          => /\ UNCHANGED Durable
             /\ response' = "ServerError" => req'[r] = Idle]_vars

\* The failure struck after the order row was flushed and one line was
\* applied: nothing of the request is in the database.
C12_Witness ==
    /\ response = "ServerError"
    /\ fault.pc = "items" /\ fault.applied >= 1
    /\ orders = <<>> /\ items = <<>> /\ stock = InitStock
    /\ AllIdle

\* C13: a confirm-order or cancel-order request on an order owned by another
\* user is rejected as Unauthorized whatever the order's status, and leaves
\* every order's status and every product's stock unchanged.
C13_OthersOrderUnauthorized ==
    [][\A r \in Reqs, u \in Users, oid \in 1..Len(orders) :
          (ConfirmOrderLoad(r, u, oid) \/ CancelOrderLoad(r, u, oid))
          /\ orders[oid].user # u
          => response' = "Unauthorized" /\ req'[r] = Idle /\ UNCHANGED Durable]_vars

\* A request on another user's order, already confirmed, has just been
\* refused; the order and its stock are as they were.
C13_Witness ==
    /\ response = "Unauthorized"
    /\ Len(orders) = 1 /\ orders[1].user = 1 /\ orders[1].status = "confirmed"
    /\ stock[1] = InitStock[1] - Ordered(OrderItems(1), 1)
    /\ Ordered(OrderItems(1), 1) >= 1

\* C14: for every non-blank message and every user, when the generative
\* responder is unavailable (not initialized) or raises, the chat reply is
\* flagged success and fallback, its text is a non-empty member of the fixed
\* fallback set, and no error is reported.
C14_FallbackOnFailure ==
    [][\A u \in Users, raw \in Messages, outcome \in {"answer", "raise"},
          answer \in Answers, sources \in Retrieved :
          Strip(raw) # <<>> /\ (~initialized \/ outcome = "raise")
          /\ Said(u, raw) /\ ChatMessage(u, raw, outcome, answer, sources)
          => /\ DOMAIN reply' = {"success", "response", "sources", "fallback"}
             /\ reply'.success /\ reply'.fallback
             /\ reply'.response \in FallbackSet /\ reply'.response # ""
             /\ reply'.sources = <<>>]_vars

\* The assistant is initialized, the chain raised, and the reply is the
\* fallback text for a message about an order.
C14_Witness ==
    /\ initialized
    /\ "fallback" \in DOMAIN reply /\ reply.fallback
    /\ reply.response = FallbackOrder
    /\ Len(chat_history) >= 1
    /\ chat_history[Len(chat_history)].message = <<"r", "e", "o", "r", "d", "e", "r">>

\* C15: clearing the chat history of a user removes every persisted turn of
\* that user and the user's conversation memory, touching no other user's;
\* the next answered message of a user without memory leaves a memory that
\* holds this one turn only.
C15_ClearForgets ==
    [][\A u \in Users :
          /\ ClearChatHistory(u)
             => /\ \A k \in 1..Len(chat_history') : chat_history'[k].user_id # u
                /\ u \notin DOMAIN user_memories'
                /\ chat_history' = SelectSeq(chat_history, LAMBDA h : h.user_id # u)
                /\ \A v \in Users \ {u} :
                      /\ (v \in DOMAIN user_memories') = (v \in DOMAIN user_memories)
                      /\ v \in DOMAIN user_memories => user_memories'[v] = user_memories[v]
          /\ \A raw \in Messages, answer \in Answers, sources \in Retrieved :
                Strip(raw) # <<>> /\ initialized /\ u \notin DOMAIN user_memories
                /\ Said(u, raw) /\ ChatMessage(u, raw, "answer", answer, sources)
                => user_memories'[u] = <<[question |-> Strip(raw), answer |-> answer]>>]_vars

\* User 1 chatted with the initialized assistant, user 2 too, and user 1
\* has just cleared: the row with id 1 is gone with user 1's memory, user
\* 2 keeps row and memory.
C15_Witness ==
    /\ initialized
    /\ reply = [success |-> TRUE, message |-> "Chat history cleared"]
    /\ 1 \notin DOMAIN user_memories
    /\ 2 \in DOMAIN user_memories /\ Len(user_memories[2]) = 1
    /\ Len(chat_history) = 1 /\ chat_history[1].user_id = 2 /\ chat_history[1].id = 2

\* C17: the history read returns the requesting user's most recent 50
\* persisted turns, all of them when there are fewer, none of another user,
\* oldest first.
C17_HistoryRead ==
    [][\A u \in Users :
          ChatHistoryRead(u)
          => LET mine == SelectSeq(chat_history, LAMBDA h : h.user_id = u)
                 n == Len(mine)
                 k == IF n < HistoryLimit THEN n ELSE HistoryLimit
                 h == reply'.history
             IN /\ Len(h) = k
                /\ \A j \in 1..k :
                      /\ h[j].id = mine[n - k + j].id
                      /\ h[j].message = mine[n - k + j].message
                      /\ h[j].response = mine[n - k + j].response]_vars

\* User 1 has 51 turns, user 2 one; the read has just returned 50 turns,
\* the oldest of user 1 left out.
C17_Witness ==
    /\ "history" \in DOMAIN reply /\ Len(reply.history) = HistoryLimit
    /\ Rows(1) = HistoryLimit + 1 /\ Rows(2) = 1
    /\ reply.history[1].id > SelectSeq(chat_history, LAMBDA h : h.user_id = 1)[1].id
    /\ reply.history[HistoryLimit].id = chat_history[Len(chat_history)].id

\* C18: a chat reply carries requires_confirmation exactly when the
\* lowercased message contains one of the order-intent phrases, whichever
\* responder variant produced it.
C18_IntentAnnotated ==
    [][\A u \in Users, raw \in Messages, outcome \in {"answer", "raise"},
          answer \in Answers, sources \in Retrieved :
          Strip(raw) # <<>>
          /\ Said(u, raw) /\ ChatMessage(u, raw, outcome, answer, sources)
          => (("requires_confirmation" \in DOMAIN reply' /\ reply'.requires_confirmation)
              <=> \E k \in 1..Len(order_keywords) :
                     Contains(Lower(Strip(raw)), order_keywords[k]))]_vars

\* C16: for every item list that passes validation the quote total is the
\* sum of price * quantity over its lines, each summary line's subtotal is
\* that line's price * quantity, and the total is the same for every
\* permutation of the lines.
C16_QuoteTotal ==
    [][response' = "pending_confirmation"
       => LET lines == quote'.lines
          IN /\ quote'.total = SumOf(lines)
             /\ Len(quote'.summary) = Len(lines)
             /\ \A k \in 1..Len(lines) :
                   quote'.summary[k].subtotal =
                      Round(quote'.summary[k].price * quote'.summary[k].quantity)
             /\ \A f \in Orderings(Len(lines)) :
                   SumOf([k \in 1..Len(lines) |-> lines[f[k]]]) = quote'.total]_vars

\* C19: when a list names a product on several lines, the placement succeeds
\* only if the quantities of all lines of that product together are within
\* its stock: no commit takes more of a product than the stock it was
\* checked against.
C19_CombinedWithinStock ==
    [][\A r \in Reqs :
          req[r].op \in {"verify", "create"} /\ response' = "order_created" /\ req'[r] = Idle
          => \A p \in Products : Ordered(req[r].lines, p) <= stock[p]]_vars

\* C20: stock is conserved: for every product, the stock plus the quantity
\* of it on the items of the orders that are not cancelled is the initial
\* stock, in every state, under every interleaving of the requests.
C20_StockConserved ==
    \A p \in Products :
        stock[p] + Ordered(SelectSeq(items, LAMBDA it : Live(it.order_id)), p) = InitStock[p]

\* C21: two concurrent cancel requests for the same pending or confirmed
\* order restore its stock at most once and at most one of them reports
\* success: a cancel request that ends on an order already cancelled by the
\* other one does not answer cancelled and raises no stock.
C21_CancelOnce ==
    [][\A r \in Reqs :
          req[r].op = "cancel" /\ req'[r] = Idle
          /\ orders[req[r].oid].status = "cancelled"
          => response' # "cancelled" /\ stock' = stock]_vars

====
